---- MODULE Spec2Model ----
(***************************************************************************)
(* FileGenius: the organize engine (file_organizer.organize_files), the    *)
(* tracking store and the undo engine (database_manager).                  *)
(*                                                                         *)
(* A path is a record [dir, name]: dir is the sequence of directory        *)
(* components, name is [stem, suffix] as pathlib splits it (Path.stem,     *)
(* Path.suffix).  A file is [content, date]; the date is the (year, month) *)
(* that get_file_creation_date reads and that travels with the file when   *)
(* it is renamed.                                                          *)
(***************************************************************************)
EXTENDS Integers, Sequences, FiniteSets, TLC

\* ------------------------------------------------------------------ bounds
MaxCalls == 2        \* calls of organize_files / undo_operation in a behaviour
MaxUserOps == 1      \* files the user drops into or removes from the tree

\* ------------------------------------------------------- universe of inputs
Contents == {1, 2}
Dates == {<<2024, 3>>}

Name(stem, suffix) == [stem |-> stem, suffix |-> suffix]
Path(dir, name) == [dir |-> dir, name |-> name]

SrcDir == <<"src">>
SubDir == <<"src", "sub">>
OutDirs == {<<"out">>}
SourceArgs == {<<"src">>, <<"missing">>, <<"src", "b.txt">>}

\* where the user puts new files
UserPaths ==
    { Path(SrcDir, Name("a", ".jpg")),
      Path(SubDir, Name("a", ".jpg")),
      Path(SrcDir, Name("b", ".txt")) }

NoPath == Path(<<>>, Name("", ""))
NoHash == ""
NoOp == 0

\* ------------------------------------------------------------ path algebra
IsPrefix(p, q) == Len(p) <= Len(q) /\ SubSeq(q, 1, Len(p)) = p

\* pathlib: Path.parents of a directory, the directory itself included
Ancestors(dir) == { SubSeq(dir, 1, n) : n \in 0..Len(dir) }

\* str(path): the components of a file path, file name last
FullPath(p) == Append(p.dir, p.name.stem \o p.name.suffix)

\* an extension compared as it is spelled
Lower_asis(suffix) == suffix

\* str.lower() on the extensions of the universe
Lower(suffix) ==
    CASE suffix = ".JPG" -> ".jpg"
      [] suffix = ".PDF" -> ".pdf"
      [] OTHER -> suffix

\* ------------------------------------------------ file_organizer constants
FILE_CATEGORIES ==
    [ images |-> {".jpg", ".jpeg", ".png"},
      documents |-> {".pdf", ".txt", ".md"},
      code |-> {".py", ".js"} ]

DEFAULT_CATEGORY == "others"

get_file_category(file_path) ==
    LET extension == Lower(file_path.name.suffix)
        hits == { c \in DOMAIN FILE_CATEGORIES : extension \in FILE_CATEGORIES[c] }
    IN IF hits = {} THEN DEFAULT_CATEGORY ELSE CHOOSE c \in hits : TRUE

\* f"{month:02d}"
Pad2(n) == IF n < 10 THEN "0" \o ToString(n) ELSE ToString(n)

build_organized_path(base_output_dir, category, year, month, organize_by_date) ==
    IF organize_by_date
    THEN base_output_dir \o <<category, ToString(year), Pad2(month)>>
    ELSE base_output_dir \o <<category>>

\* f"{stem}_{counter}{suffix}"
Numbered(original, counter) ==
    Name(original.stem \o "_" \o ToString(counter), original.suffix)

\* the loop 'while target_file.exists()' of organize_files
RECURSIVE ResolveConflict(_, _, _, _, _)
ResolveConflict(fs, target_dir, original, target_name, counter) ==
    IF Path(target_dir, target_name) \in DOMAIN fs
    THEN ResolveConflict(fs, target_dir, original, Numbered(original, counter), counter + 1)
    ELSE Path(target_dir, target_name)

\* a move that takes the plain name whether or not it is free
TargetFile_overwrite(fs, target_dir, file_name) == Path(target_dir, file_name)

TargetFile(fs, target_dir, file_name) ==
    ResolveConflict(fs, target_dir, file_name, file_name, 1)

\* hashlib.sha256(content).hexdigest(): injective on the contents of the universe
compute_file_hash(content) == "sha" \o ToString(content)

\* ------------------------------------------------------------- filesystem
PathExists(fs, ds, components) ==
    components \in ds \/ \E p \in DOMAIN fs : FullPath(p) = components

IsDir(ds, components) == components \in ds

\* Path.mkdir(parents=True, exist_ok=True)
Mkdir(ds, dir) == ds \cup Ancestors(dir)

\* shutil.move(source, target) where target does not exist
MoveFile(fs, source, target) ==
    [ p \in (DOMAIN fs \ {source}) \cup {target} |->
        IF p = target THEN fs[source] ELSE fs[p] ]

\* Path.unlink()
Unlink(fs, p) == [ q \in DOMAIN fs \ {p} |-> fs[q] ]

\* scan_directory: the files of the directory, or of its whole subtree
scan_directory(fs, directory, recursive) ==
    { p \in DOMAIN fs : IF recursive THEN IsPrefix(directory, p.dir)
                                     ELSE p.dir = directory }

\* the orders in which iterdir / rglob may list a set of files: a directory's
\* own entries come in any order, and before those of its subdirectories
Orders(S) ==
    { s \in [1..Cardinality(S) -> S] :
        /\ \A i, j \in 1..Cardinality(S) : i # j => s[i] # s[j]
        /\ \A i, j \in 1..Cardinality(S) :
              (s[i].dir # s[j].dir /\ IsPrefix(s[i].dir, s[j].dir)) => i < j }

\* ------------------------------------------------------------------ state
VARIABLES
    files,        \* the files on disk: path -> [content, date]
    dirs,         \* the directories on disk
    dbFile,       \* the SQLite file at db_path exists
    tableExists,  \* the table 'files' exists in it
    records,      \* the rows of table 'files'
    nextId,       \* AUTOINCREMENT: the id the next row gets
    clock,        \* datetime.now() as read by insert_file_record
    opCount,      \* operation ids generated so far
    call,         \* the call that has just returned to its caller, or NoCall
    justRan,      \* the last step: a tracked live run (its id and its moves), or an
                  \* undo that died before its DELETE (the records it left behind)
    nCalls,       \* number of calls so far
    nUser,        \* number of user actions so far
    layout,       \* --by-date, --recursive and --output as this user passes them to every run
    faulted,      \* an operating-system failure has already happened
    model,        \* the FileOrganizationModel held in memory
    prediction    \* the last call of predict_destination on that model

vars == <<files, dirs, dbFile, tableExists, records, nextId, clock, opCount,
          call, justRan, nCalls, nUser, layout, faulted, model, prediction>>

\* the part of the state a call reads and writes
World == [ files |-> files, dirs |-> dirs, dbFile |-> dbFile,
           tableExists |-> tableExists, records |-> records,
           nextId |-> nextId, clock |-> clock, opCount |-> opCount ]

ZeroStats == [ files_processed |-> 0, files_moved |-> 0, errors |-> 0,
               duplicates_found |-> 0, duplicates_removed |-> 0,
               files_restored |-> 0 ]

NoFault == [ path |-> NoPath, id |-> 0, kind |-> "none" ]

NoArgs == [ source |-> <<>>, output |-> <<>>, organize_by_date |-> FALSE,
            recursive |-> FALSE, dry_run |-> FALSE, enable_database |-> FALSE,
            check_duplicates |-> FALSE, remove_duplicates |-> FALSE,
            operation_id |-> NoOp ]

\* what a call saw when it started
Snapshot(w, just) == [ files |-> w.files, dirs |-> w.dirs, dbFile |-> w.dbFile,
                       tableExists |-> w.tableExists, records |-> w.records,
                       opCount |-> w.opCount, justRan |-> just ]

NoRun == [ op |-> NoOp, moved |-> {}, orphans |-> {} ]

NoCall == [ kind |-> "none", args |-> NoArgs, order |-> <<>>, fault |-> NoFault,
            pre |-> [ files |-> <<>>, dirs |-> {}, dbFile |-> FALSE,
                      tableExists |-> FALSE, records |-> {}, opCount |-> 0,
                      justRan |-> NoRun ],
            stats |-> ZeroStats, report |-> <<>>,
            preview |-> [ stats |-> ZeroStats, report |-> <<>> ],
            raised |-> FALSE, op |-> NoOp ]

\* -------------------------------------------------------- tracking store
\* init_db: CREATE TABLE IF NOT EXISTS (sqlite3.connect creates the file)
init_db(w) == [w EXCEPT !.dbFile = TRUE, !.tableExists = TRUE]

\* ORDER BY operation_date ASC / DESC over a set of rows
RECURSIVE SortByDateAsc(_)
SortByDateAsc(rows) ==
    IF rows = {} THEN <<>>
    ELSE LET first == CHOOSE r \in rows :
                        \A q \in rows : r.operation_date < q.operation_date
                                        \/ (r.operation_date = q.operation_date /\ r.id <= q.id)
         IN <<first>> \o SortByDateAsc(rows \ {first})

Reverse(s) == [ i \in 1..Len(s) |-> s[Len(s) + 1 - i] ]

\* insert_file_record: one INSERT in its own transaction
insert_file_record(w, file_info) ==
    [w EXCEPT !.records = @ \cup
                  {[ id |-> w.nextId,
                     original_path |-> file_info.original_path,
                     new_path |-> file_info.new_path,
                     file_name |-> file_info.file_name,
                     file_type |-> file_info.file_type,
                     created_at |-> file_info.created_at,
                     sha256_hash |-> file_info.sha256_hash,
                     operation_date |-> w.clock,
                     operation_id |-> file_info.operation_id ]},
              !.nextId = @ + 1,
              !.clock = @ + 1]

\* a lookup that never matches
get_duplicate_blind(rows, hash_value) == {}

\* a lookup with ORDER BY operation_date ASC
get_duplicate_oldest(rows, hash_value) ==
    LET matching == SortByDateAsc({ r \in rows : r.sha256_hash = hash_value })
    IN IF matching = <<>> THEN {} ELSE {matching[1]}

\* get_duplicate: WHERE sha256_hash = ? ORDER BY operation_date DESC LIMIT 1
\* (a set with at most one row; empty when there is no match)
get_duplicate(rows, hash_value) ==
    LET matching == SortByDateAsc({ r \in rows : r.sha256_hash = hash_value })
    IN IF matching = <<>> THEN {} ELSE {Reverse(matching)[1]}

\* a SELECT without its WHERE clause
get_operation_files_all(rows, operation_id) == SortByDateAsc(rows)

\* get_operation_files: WHERE operation_id = ? ORDER BY operation_date ASC
get_operation_files(rows, operation_id) ==
    SortByDateAsc({ r \in rows : r.operation_id = operation_id })

\* get_last_operation_id: ORDER BY operation_date DESC LIMIT 1
get_last_operation_id(rows) ==
    IF rows = {} THEN NoOp ELSE Reverse(SortByDateAsc(rows))[1].operation_id

NoStats == [ total_files |-> 0, files_by_type |-> <<>>, total_operations |-> 0 ]

\* get_database_stats: COUNT(*), GROUP BY file_type, COUNT(DISTINCT operation_id);
\* the first SELECT raises when the table is missing
get_database_stats(w) ==
    IF ~w.tableExists
    THEN [ w |-> [w EXCEPT !.dbFile = TRUE], raised |-> TRUE, stats |-> NoStats ]
    ELSE [ w |-> [w EXCEPT !.dbFile = TRUE], raised |-> FALSE,
           stats |-> [ total_files |-> Cardinality(w.records),
                       files_by_type |->
                           [ t \in { r.file_type : r \in w.records } |->
                               Cardinality({ r \in w.records : r.file_type = t }) ],
                       total_operations |->
                           Cardinality({ r.operation_id : r \in w.records }) ] ]

\* -------------------------------------------------------- organize engine
\* no validation of the source
SourceIsValid_skipped(w, source) == TRUE

\* the validation of source_path at the top of organize_files
SourceIsValid(w, source) ==
    PathExists(w.files, w.dirs, source) /\ IsDir(w.dirs, source)

\* only the files directly in the output directory
InOutputDir_direct(output_path, file_path) == file_path.dir = output_path

\* 'output_path in file_path.parents or file_path.parent == output_path'
InOutputDir(output_path, file_path) ==
    output_path \in Ancestors(file_path.dir) \/ file_path.dir = output_path

Entry(source, target, outcome) ==
    [ source |-> source, target |-> target, outcome |-> outcome ]

\* one iteration of 'for file_path in files'
OrganizeFile(acc, file_path, o, operation_id, fault) ==
    LET w == acc.w
        hit(k) == fault.path = file_path /\ fault.kind = k
        st == [acc.stats EXCEPT !.files_processed = @ + 1]
        file == w.files[file_path]
        file_hash ==
            IF (o.check_duplicates \/ o.enable_database) /\ ~hit("hash")
            THEN compute_file_hash(file.content) ELSE NoHash
        lookup == o.check_duplicates /\ file_hash # NoHash /\ o.enable_database
        \* get_duplicate connects (creating the store file) and raises when
        \* the table is missing; organize_files catches that and goes on
        wc == IF lookup THEN [w EXCEPT !.dbFile = TRUE] ELSE w
        duplicate == IF lookup /\ w.tableExists
                     THEN get_duplicate(w.records, file_hash) ELSE {}
        category == get_file_category(file_path)
        target_dir == build_organized_path(o.output, category, file.date[1],
                                           file.date[2], o.organize_by_date)
        target_file == TargetFile(w.files, target_dir, file_path.name)
        made == [wc EXCEPT !.dirs = Mkdir(@, target_dir)]
        moved == [made EXCEPT !.files = MoveFile(@, file_path, target_file)]
        file_info == [ original_path |-> file_path, new_path |-> target_file,
                       file_name |-> file_path.name, file_type |-> category,
                       created_at |-> file.date,
                       sha256_hash |-> file_hash, operation_id |-> operation_id ]
    IN
    IF InOutputDir(o.output, file_path)
    THEN [acc EXCEPT !.stats = st,
                     !.report = Append(@, Entry(file_path, file_path, "skipped"))]
    ELSE IF duplicate # {}
    THEN LET found == [st EXCEPT !.duplicates_found = @ + 1] IN
         IF ~o.remove_duplicates \/ o.dry_run
         THEN [acc EXCEPT !.w = wc, !.stats = found,
                          !.report = Append(@, Entry(file_path, file_path, "duplicate"))]
         ELSE IF hit("unlink")
         THEN [acc EXCEPT !.w = wc,
                          !.stats = [found EXCEPT !.errors = @ + 1],
                          !.report = Append(@, Entry(file_path, file_path, "unlink_failed"))]
         ELSE [acc EXCEPT !.w = [wc EXCEPT !.files = Unlink(@, file_path)],
                          !.stats = [found EXCEPT !.duplicates_removed = @ + 1],
                          !.report = Append(@, Entry(file_path, file_path, "deleted"))]
    ELSE IF hit("stat")
    \* file_path.stat() is outside every try block
    THEN [acc EXCEPT !.w = wc, !.stats = st, !.raised = TRUE,
                     !.report = Append(@, Entry(file_path, file_path, "raised"))]
    ELSE IF o.dry_run
    THEN [acc EXCEPT !.w = wc,
                     !.stats = [st EXCEPT !.files_moved = @ + 1],
                     !.report = Append(@, Entry(file_path, target_file, "moved"))]
    ELSE IF hit("move")
    THEN [acc EXCEPT !.w = made,
                     !.stats = [st EXCEPT !.errors = @ + 1],
                     !.report = Append(@, Entry(file_path, target_file, "move_failed"))]
    \* a failure of insert_file_record is logged and the run goes on
    ELSE [acc EXCEPT !.w = IF o.enable_database /\ operation_id # NoOp /\ ~hit("insert")
                           THEN insert_file_record(moved, file_info) ELSE moved,
                     !.stats = [st EXCEPT !.files_moved = @ + 1],
                     !.report = Append(@, Entry(file_path, target_file, "moved"))]

\* the moves a run reports as done
Moves(report) ==
    { [ source |-> report[i].source, target |-> report[i].target ] :
        i \in { j \in 1..Len(report) : report[j].outcome = "moved" } }

\* a loop that gives up at the first file it cannot move or delete
RECURSIVE OrganizeLoop_abort(_, _, _, _, _, _)
OrganizeLoop_abort(acc, order, i, o, operation_id, fault) ==
    IF i > Len(order) \/ acc.raised \/ acc.stats.errors > 0 THEN acc
    ELSE OrganizeLoop_abort(OrganizeFile(acc, order[i], o, operation_id, fault),
                            order, i + 1, o, operation_id, fault)

RECURSIVE OrganizeLoop(_, _, _, _, _, _)
OrganizeLoop(acc, order, i, o, operation_id, fault) ==
    IF i > Len(order) \/ acc.raised THEN acc
    ELSE OrganizeLoop(OrganizeFile(acc, order[i], o, operation_id, fault),
                      order, i + 1, o, operation_id, fault)

\* an identifier that every run gets again
generate_operation_id_constant(w) == 1

\* f"run_{datetime.now():%Y%m%d_%H%M%S}_{uuid.uuid4().hex[:8]}": the time of
\* the run to the second and 32 random bits, taken as a value no earlier run
\* has had
generate_operation_id(w) == w.opCount + 1

\* organize_files; order is the order in which scan_directory lists the files
organize_files(w, o, order, fault) ==
    IF ~SourceIsValid(w, o.source)
    THEN [ w |-> w, stats |-> [ZeroStats EXCEPT !.errors = 1], report |-> <<>>,
           raised |-> FALSE, op |-> NoOp ]
    ELSE LET tracked == o.enable_database /\ ~o.dry_run
             operation_id == IF tracked THEN generate_operation_id(w) ELSE NoOp
             w1 == IF tracked THEN [init_db(w) EXCEPT !.opCount = @ + 1] ELSE w
             start == [ w |-> w1, stats |-> ZeroStats, report |-> <<>>,
                        raised |-> FALSE, op |-> operation_id ]
         IN OrganizeLoop(start, order, 1, o, operation_id, fault)

\* ------------------------------------------------------------ undo engine
UndoEntry(r, outcome) == [ id |-> r.id, outcome |-> outcome ]

\* 'if not new_path.exists()'
NewPathMissing(fs, new_path) == new_path \notin DOMAIN fs

\* no look at the original location
OriginalOccupied_unchecked(fs, original_path) == FALSE

\* 'if original_path.exists()'
OriginalOccupied(fs, original_path) == original_path \in DOMAIN fs

\* one iteration of 'for file_record in files' of undo_operation
UndoRecord(acc, file_record, dry_run, fault) ==
    LET w == acc.w
        original_path == file_record.original_path
        new_path == file_record.new_path
        made == [w EXCEPT !.dirs = Mkdir(@, original_path.dir)]
        moved == [made EXCEPT !.files = MoveFile(@, new_path, original_path)]
    IN
    IF NewPathMissing(w.files, new_path)
    THEN [acc EXCEPT !.stats.errors = @ + 1,
                     !.report = Append(@, UndoEntry(file_record, "missing"))]
    ELSE IF OriginalOccupied(w.files, original_path)
    THEN [acc EXCEPT !.stats.errors = @ + 1,
                     !.report = Append(@, UndoEntry(file_record, "occupied"))]
    ELSE IF dry_run
    THEN [acc EXCEPT !.stats.files_restored = @ + 1,
                     !.report = Append(@, UndoEntry(file_record, "restored"))]
    ELSE IF fault.id = file_record.id
    THEN [acc EXCEPT !.w = made, !.stats.errors = @ + 1,
                     !.report = Append(@, UndoEntry(file_record, "move_failed"))]
    ELSE [acc EXCEPT !.w = moved, !.stats.files_restored = @ + 1,
                     !.restored_ids = @ \cup {file_record.id},
                     !.report = Append(@, UndoEntry(file_record, "restored"))]

\* a loop that gives up at the first record it cannot restore
RECURSIVE UndoLoop_abort(_, _, _, _, _)
UndoLoop_abort(acc, rows, i, dry_run, fault) ==
    IF i > Len(rows) \/ acc.stats.errors > 0 THEN acc
    ELSE UndoLoop_abort(UndoRecord(acc, rows[i], dry_run, fault), rows, i + 1, dry_run, fault)

RECURSIVE UndoLoop(_, _, _, _, _)
UndoLoop(acc, rows, i, dry_run, fault) ==
    IF i > Len(rows) THEN acc
    ELSE UndoLoop(UndoRecord(acc, rows[i], dry_run, fault), rows, i + 1, dry_run, fault)

\* the batch deletion forgotten
DeleteRestored_none(rows, restored_ids) == rows

\* a DELETE without its WHERE clause
DeleteRestored_all(rows, restored_ids) == {}

\* 'DELETE FROM files WHERE id IN (restored_ids)'
DeleteRestored(rows, restored_ids) == { r \in rows : r.id \notin restored_ids }

\* an undo whose dry run restores and deletes like a live one
undo_operation_always_live(w, operation_id, dry_run, fault) ==
    LET start == [ w |-> [w EXCEPT !.dbFile = TRUE], stats |-> ZeroStats,
                   report |-> <<>>, raised |-> FALSE, restored_ids |-> {} ]
        done == UndoLoop(start, get_operation_files(w.records, operation_id),
                         1, FALSE, fault)
    IN IF ~w.tableExists THEN [start EXCEPT !.raised = TRUE]
       ELSE [done EXCEPT !.w.records = DeleteRestored(@, done.restored_ids)]

\* undo_operation
undo_operation(w, operation_id, dry_run, fault) ==
    LET wc == [w EXCEPT !.dbFile = TRUE]
        start == [ w |-> wc, stats |-> ZeroStats, report |-> <<>>,
                   raised |-> FALSE, restored_ids |-> {} ]
    IN
    IF ~w.tableExists
    \* get_operation_files raises 'no such table', undo_operation re-raises
    THEN [start EXCEPT !.raised = TRUE]
    ELSE LET rows == get_operation_files(w.records, operation_id)
             done == UndoLoop(start, rows, 1, dry_run, fault)
         IN IF ~dry_run /\ done.restored_ids # {}
            THEN [done EXCEPT !.w.records = DeleteRestored(@, done.restored_ids)]
            ELSE done

\* undo_last_operation: get_last_operation_id raises 'no such table' like every
\* other query; without a row it returns the zero statistics
undo_last_operation(w, dry_run, fault) ==
    LET wc == [w EXCEPT !.dbFile = TRUE]
        nothing == [ w |-> wc, stats |-> ZeroStats, report |-> <<>>,
                     raised |-> FALSE, restored_ids |-> {} ]
    IN IF ~w.tableExists THEN [nothing EXCEPT !.raised = TRUE]
       ELSE IF get_last_operation_id(w.records) = NoOp THEN nothing
       ELSE undo_operation(w, get_last_operation_id(w.records), dry_run, fault)

\* --------------------------------------------------------- learning engine
MIN_SAMPLES_FOR_PREDICTION == 3

\* the weights of the three strategies of predict_destination, in tenths
Weight == [ type |-> 5, extension |-> 3, name |-> 2 ]

\* created_at IS NULL
NoDate == <<>>

\* a quotient of two integers, as Python's count / total
Frac(n, d) == [ num |-> n, den |-> d ]
FracAdd(a, b) == Frac(a.num * b.den + b.num * a.den, a.den * b.den)
FracDiv(a, b) == Frac(a.num * b.den, a.den * b.num)
FracLess(a, b) == a.num * b.den < b.num * a.den
FracEq(a, b) == a.num * b.den = b.num * a.den

\* extract_filename_pattern: the stem, '_' and '-' taken as blanks, split,
\* first word in lower case; 'unknown' when there is no word
extract_filename_pattern(file_name) ==
    CASE file_name.stem = "report_2024" -> "report"
      [] file_name.stem = "Report-final" -> "report"
      [] file_name.stem = "IMG_1234" -> "img"
      [] file_name.stem \in {"", "_"} -> "unknown"
      [] OTHER -> file_name.stem

\* extract_destination_pattern: the component after 'organized', else the
\* name of the parent directory
extract_destination_pattern(path) ==
    LET parts == FullPath(path)
        hits == { i \in 1..Len(parts) : parts[i] = "organized" }
        idx == CHOOSE i \in hits : \A j \in hits : i <= j
    IN IF hits # {} /\ idx + 1 <= Len(parts) THEN parts[idx + 1]
       ELSE IF Len(path.dir) > 0 THEN path.dir[Len(path.dir)]
       ELSE "unknown"

\* collections.Counter: its entries in insertion order
CounterAdd(counter, destination) ==
    IF \E i \in 1..Len(counter) : counter[i].key = destination
    THEN [ i \in 1..Len(counter) |->
             IF counter[i].key = destination
             THEN [counter[i] EXCEPT !.count = @ + 1] ELSE counter[i] ]
    ELSE Append(counter, [ key |-> destination, count |-> 1 ])

\* a table that remembers only the last destination of a key
TableAdd_overwrite(table, key, destination) ==
    [ k \in DOMAIN table \cup {key} |->
        IF k = key THEN <<[ key |-> destination, count |-> 1 ]>> ELSE table[k] ]

\* defaultdict(Counter): table[key][destination] += 1
TableAdd(table, key, destination) ==
    [ k \in DOMAIN table \cup {key} |->
        IF k = key
        THEN CounterAdd(IF key \in DOMAIN table THEN table[key] ELSE <<>>, destination)
        ELSE table[k] ]

\* temporal_patterns[year][file_type][destination] += 1
TemporalAdd(temporal, year, file_type, destination) ==
    [ y \in DOMAIN temporal \cup {year} |->
        IF y = year
        THEN TableAdd(IF year \in DOMAIN temporal THEN temporal[year] ELSE <<>>,
                      file_type, destination)
        ELSE temporal[y] ]

\* FileOrganizationModel.__init__
EmptyModel ==
    [ type_to_folder |-> <<>>, ext_to_folder |-> <<>>,
      name_pattern_to_folder |-> <<>>, temporal_patterns |-> <<>>,
      total_samples |-> 0, last_trained |-> 0 ]

\* the body of 'for record in records' of learn_from_history
LearnRecord(m, record) ==
    LET file_ext == Lower(record.file_name.suffix)
        name_pattern == extract_filename_pattern(record.file_name)
        destination == extract_destination_pattern(record.new_path)
    IN [m EXCEPT
          !.type_to_folder = TableAdd(@, record.file_type, destination),
          !.ext_to_folder = IF file_ext # "" THEN TableAdd(@, file_ext, destination)
                            ELSE @,
          !.name_pattern_to_folder = TableAdd(@, name_pattern, destination),
          !.temporal_patterns =
              IF record.created_at # NoDate
              THEN TemporalAdd(@, record.created_at[1], record.file_type, destination)
              ELSE @,
          !.total_samples = @ + 1]

RECURSIVE LearnLoop(_, _, _)
LearnLoop(m, rows, i) ==
    IF i > Len(rows) THEN m
    ELSE LearnLoop(LearnRecord(m, rows[i]), rows, i + 1)

\* ORDER BY operation_date ASC leaves the order of rows of equal
\* operation_date open: by ascending or by descending rowid
TieBreaks == {"rowid", "reverse"}

RECURSIVE SortByDate(_, _)
SortByDate(rows, tie) ==
    IF rows = {} THEN <<>>
    ELSE LET first == CHOOSE r \in rows : \A q \in rows :
                         \/ r.operation_date < q.operation_date
                         \/ /\ r.operation_date = q.operation_date
                            /\ IF tie = "rowid" THEN r.id <= q.id ELSE r.id >= q.id
         IN <<first>> \o SortByDate(rows \ {first}, tie)

\* learn_from_history: an empty model when the store file is missing or the
\* query fails; otherwise the fold over the rows in the order 'tie' gives
learn_from_history(w, tie) ==
    IF ~w.dbFile \/ ~w.tableExists THEN EmptyModel
    ELSE [LearnLoop(EmptyModel, SortByDate(w.records, tie), 1)
             EXCEPT !.last_trained = w.clock]

\* Counter.most_common(1)[0]: the first inserted of the entries of highest count
most_common_first(counter) == counter[1]

most_common(counter) ==
    counter[CHOOSE i \in 1..Len(counter) :
               /\ \A j \in 1..Len(counter) : counter[j].count <= counter[i].count
               /\ \A j \in 1..(i - 1) : counter[j].count < counter[i].count]

\* sum(counter.values())
RECURSIVE CounterTotal(_)
CounterTotal(counter) ==
    IF counter = <<>> THEN 0
    ELSE counter[1].count + CounterTotal(Tail(counter))

\* a local confidence that is the count itself
LocalConfidence_count(count, total) == Frac(count, 1)

\* confidence = count / total
LocalConfidence(count, total) == Frac(count, total)

\* one strategy: the entry appended to 'predictions', if its key is in the table
Strategy(table, key, signal) ==
    IF key \in DOMAIN table /\ table[key] # <<>>
    THEN << [ signal |-> signal,
              destination |-> most_common(table[key]).key,
              count |-> most_common(table[key]).count,
              total |-> CounterTotal(table[key]),
              confidence |-> LocalConfidence(most_common(table[key]).count,
                                             CounterTotal(table[key])),
              weight |-> Weight[signal] ] >>
    ELSE <<>>

\* destination_scores[dest]['total_confidence'], in tenths
RECURSIVE TotalConfidence(_, _, _)
TotalConfidence(predictions, i, dest) ==
    IF i > Len(predictions) THEN Frac(0, 1)
    ELSE FracAdd(IF predictions[i].destination = dest
                 THEN Frac(predictions[i].confidence.num * predictions[i].weight,
                           predictions[i].confidence.den)
                 ELSE Frac(0, 1),
                 TotalConfidence(predictions, i + 1, dest))

\* destination_scores[dest]['total_weight'], in tenths
RECURSIVE TotalWeight(_, _, _)
TotalWeight(predictions, i, dest) ==
    IF i > Len(predictions) THEN 0
    ELSE (IF predictions[i].destination = dest THEN predictions[i].weight ELSE 0)
         + TotalWeight(predictions, i + 1, dest)

\* a vote that follows the first strategy that fired
BestDestination_first(predictions) == predictions[1].destination

\* max(destination_scores.items(), key=total_confidence): the first inserted
\* of the destinations of highest total_confidence
BestDestination(predictions) ==
    predictions[CHOOSE i \in 1..Len(predictions) :
        /\ \A j \in 1..Len(predictions) :
              ~FracLess(TotalConfidence(predictions, 1, predictions[i].destination),
                        TotalConfidence(predictions, 1, predictions[j].destination))
        /\ \A j \in 1..(i - 1) :
              FracLess(TotalConfidence(predictions, 1, predictions[j].destination),
                       TotalConfidence(predictions, 1, predictions[i].destination))
    ].destination

\* a check of the sample count that always passes
HasEnoughSamples_always(m) == TRUE

\* 'if model.total_samples < MIN_SAMPLES_FOR_PREDICTION: return None', negated
HasEnoughSamples(m) == m.total_samples >= MIN_SAMPLES_FOR_PREDICTION

NoResult == [ found |-> FALSE, destination |-> "", confidence |-> Frac(0, 1),
              predictions |-> <<>> ]

\* predict_destination; found = FALSE stands for None
predict_destination(file_metadata, m) ==
    LET file_ext == Lower(file_metadata.file_ext)
        predictions ==
            Strategy(m.type_to_folder, file_metadata.file_type, "type")
            \o (IF file_ext # ""
                THEN Strategy(m.ext_to_folder, file_ext, "extension") ELSE <<>>)
            \o Strategy(m.name_pattern_to_folder,
                        extract_filename_pattern(file_metadata.file_name), "name")
        destination == BestDestination(predictions)
    IN IF ~HasEnoughSamples(m) \/ predictions = <<>> THEN NoResult
       ELSE [ found |-> TRUE, destination |-> destination,
              confidence |->
                  FracDiv(TotalConfidence(predictions, 1, destination),
                          Frac(TotalWeight(predictions, 1, destination), 1)),
              predictions |-> predictions ]

NoMetadata == [ file_name |-> Name("", ""), file_type |-> "", file_ext |-> "" ]

NoPrediction == [ called |-> FALSE, file_metadata |-> NoMetadata, result |-> NoResult ]

\* ---------------------------------------------------------------- actions
\* the source tree at the start: two files of the same content under
\* different names, two files of the same name in different directories
InitialTrees ==
    { [ p \in UserPaths |->
          [ content |-> IF p.dir = SubDir THEN 2 ELSE 1, date |-> d ] ] : d \in Dates }

Init ==
    /\ files \in InitialTrees
    /\ dirs = Ancestors(SubDir)
    /\ dbFile = FALSE
    /\ tableExists = FALSE
    /\ records = {}
    /\ nextId = 1
    /\ clock = 1
    /\ opCount = 0
    /\ call = NoCall
    /\ justRan = NoRun
    /\ nCalls = 0
    /\ nUser = 0
    /\ layout \in [ organize_by_date : BOOLEAN, recursive : BOOLEAN, output : OutDirs ]
    /\ faulted = FALSE
    /\ model = EmptyModel
    /\ prediction = NoPrediction

SetWorld(w) ==
    /\ files' = w.files
    /\ dirs' = w.dirs
    /\ dbFile' = w.dbFile
    /\ tableExists' = w.tableExists
    /\ records' = w.records
    /\ nextId' = w.nextId
    /\ clock' = w.clock
    /\ opCount' = w.opCount

\* the user drops a new file into the source tree
UserAddsFile ==
    /\ call = NoCall
    /\ nUser < MaxUserOps
    /\ \E p \in UserPaths, c \in Contents, d \in Dates :
          /\ p \notin DOMAIN files
          /\ files' = [ q \in DOMAIN files \cup {p} |->
                          IF q = p THEN [content |-> c, date |-> d] ELSE files[q] ]
    /\ nUser' = nUser + 1
    /\ justRan' = NoRun
    /\ UNCHANGED <<dirs, dbFile, tableExists, records, nextId, clock, opCount, call, nCalls,
                   layout, faulted, model, prediction>>

\* the user deletes a file
UserRemovesFile ==
    /\ call = NoCall
    /\ nUser < MaxUserOps
    /\ \E p \in DOMAIN files : files' = Unlink(files, p)
    /\ nUser' = nUser + 1
    /\ justRan' = NoRun
    /\ UNCHANGED <<dirs, dbFile, tableExists, records, nextId, clock, opCount, call, nCalls,
                   layout, faulted, model, prediction>>

OrganizeFaults(scanned) ==
    {NoFault} \cup { [ path |-> p, id |-> 0, kind |-> k ] :
                       p \in scanned,
                       k \in {"hash", "stat", "move", "unlink", "insert"} }

\* the injected failure is one the run actually met
OrganizeFaultFired(res, o, fault) ==
    \/ fault = NoFault
    \/ /\ fault.kind = "hash"
       /\ o.check_duplicates \/ o.enable_database
       /\ ~InOutputDir(o.output, fault.path)
    \/ \E i \in 1..Len(res.report) :
          /\ res.report[i].source = fault.path
          /\ \/ fault.kind = "stat" /\ res.report[i].outcome = "raised"
             \/ fault.kind = "move" /\ res.report[i].outcome = "move_failed"
             \/ fault.kind = "unlink" /\ res.report[i].outcome = "unlink_failed"
             \/ /\ fault.kind = "insert" /\ res.report[i].outcome = "moved"
                /\ o.enable_database /\ ~o.dry_run

OrganizeArgs ==
    [ source : SourceArgs, output : {layout.output},
      organize_by_date : {layout.organize_by_date},
      recursive : {layout.recursive}, dry_run : BOOLEAN, enable_database : BOOLEAN,
      check_duplicates : BOOLEAN, remove_duplicates : BOOLEAN,
      operation_id : {NoOp} ]

Organize ==
    /\ call = NoCall
    /\ nCalls < MaxCalls
    /\ \E o \in OrganizeArgs :
          \* a source that fails validation: the other options are never read
          /\ ~SourceIsValid(World, o.source) =>
                /\ o.check_duplicates /\ ~o.remove_duplicates
          /\ \E order \in Orders(IF SourceIsValid(World, o.source)
                                 THEN scan_directory(files, o.source, o.recursive)
                                 ELSE {}) :
             \* one operating-system failure at most in a behaviour
             \E fault \in { f \in OrganizeFaults({ order[i] : i \in 1..Len(order) }) :
                               f = NoFault \/ ~faulted } :
             \E res \in {organize_files(World, o, order, fault)} :
                /\ OrganizeFaultFired(res, o, fault)
                /\ \E dry \in {IF o.dry_run THEN res
                               ELSE organize_files(World, [o EXCEPT !.dry_run = TRUE],
                                                   order, fault)} :
                   /\ faulted' = (faulted \/ fault # NoFault)
                   /\ SetWorld(res.w)
                   /\ call' = [ kind |-> "organize", args |-> o, order |-> order,
                                fault |-> fault,
                                pre |-> Snapshot(World, justRan),
                                stats |-> res.stats, report |-> res.report,
                                preview |-> [ stats |-> dry.stats, report |-> dry.report ],
                                raised |-> res.raised, op |-> res.op ]
                   /\ justRan' = IF res.op = NoOp THEN NoRun
                                 ELSE [ op |-> res.op, moved |-> Moves(res.report),
                                        orphans |-> {} ]
    /\ nCalls' = nCalls + 1
    /\ UNCHANGED <<nUser, layout, model, prediction>>

\* shutil.move fails for one record of the operation
UndoFaults(operation_id) ==
    {NoFault} \cup { [ path |-> NoPath, id |-> r.id, kind |-> "move" ] :
                       r \in { q \in records : q.operation_id = operation_id } }

\* the injected failure is one the undo actually met
UndoFaultFired(res, fault) ==
    \/ fault = NoFault
    \/ \E i \in 1..Len(res.report) :
          res.report[i] = [ id |-> fault.id, outcome |-> "move_failed" ]

Undo ==
    /\ call = NoCall
    /\ nCalls < MaxCalls
    /\ \E operation_id \in 1..(opCount + 1), dry_run \in BOOLEAN :
       \E fault \in { f \in UndoFaults(operation_id) : f = NoFault \/ ~faulted } :
       \E res \in {undo_operation(World, operation_id, dry_run, fault)} :
       \E dry \in {IF dry_run THEN res
                   ELSE undo_operation(World, operation_id, TRUE, fault)} :
             /\ UndoFaultFired(res, fault)
             /\ faulted' = (faulted \/ fault # NoFault)
             /\ SetWorld(res.w)
             /\ call' = [ kind |-> "undo",
                          args |-> [NoArgs EXCEPT !.operation_id = operation_id,
                                                  !.dry_run = dry_run],
                          order |-> <<>>, fault |-> fault,
                          pre |-> Snapshot(World, justRan),
                          stats |-> res.stats, report |-> res.report,
                          preview |-> [ stats |-> dry.stats, report |-> dry.report ],
                          raised |-> res.raised, op |-> operation_id ]
             /\ justRan' = NoRun
    /\ nCalls' = nCalls + 1
    /\ UNCHANGED <<nUser, layout, model, prediction>>

\* --undo-last
UndoLast ==
    /\ call = NoCall
    /\ nCalls < MaxCalls
    /\ \E dry_run \in BOOLEAN :
       \E operation_id \in {IF tableExists THEN get_last_operation_id(records) ELSE NoOp} :
       \E fault \in { f \in UndoFaults(operation_id) : f = NoFault \/ ~faulted } :
       \E res \in {undo_last_operation(World, dry_run, fault)} :
       \E dry \in {IF dry_run THEN res ELSE undo_last_operation(World, TRUE, fault)} :
             /\ UndoFaultFired(res, fault)
             /\ faulted' = (faulted \/ fault # NoFault)
             /\ SetWorld(res.w)
             /\ call' = [ kind |-> "undo_last",
                          args |-> [NoArgs EXCEPT !.operation_id = operation_id,
                                                  !.dry_run = dry_run],
                          order |-> <<>>, fault |-> fault,
                          pre |-> Snapshot(World, justRan),
                          stats |-> res.stats, report |-> res.report,
                          preview |-> [ stats |-> dry.stats, report |-> dry.report ],
                          raised |-> res.raised, op |-> operation_id ]
             /\ justRan' = NoRun
    /\ nCalls' = nCalls + 1
    /\ UNCHANGED <<nUser, layout, model, prediction>>

\* get_database_stats, as --show-stats calls it when the store file exists
ShowStats ==
    /\ call = NoCall
    /\ nCalls < MaxCalls
    /\ dbFile
    /\ \E res \in {get_database_stats(World)} :
          /\ SetWorld(res.w)
          /\ call' = [NoCall EXCEPT !.kind = "stats",
                                    !.pre = Snapshot(World, justRan),
                                    !.report = res.stats,
                                    !.raised = res.raised]
    /\ justRan' = NoRun
    /\ nCalls' = nCalls + 1
    /\ UNCHANGED <<nUser, layout, faulted, model, prediction>>

\* the caller has read what the call returned
Return ==
    /\ call # NoCall
    /\ call' = NoCall
    /\ prediction' = NoPrediction
    /\ UNCHANGED <<files, dirs, dbFile, tableExists, records, nextId, clock,
                   opCount, justRan, nCalls, nUser, layout, faulted, model>>

Next ==
    \/ UserAddsFile \/ UserRemovesFile
    \/ Organize \/ Undo \/ UndoLast \/ ShowStats \/ Return

Spec == Init /\ [][Next]_vars

\* ------------------------------------------------ an undo that is cut short
\* a live undo_operation whose process dies after it has moved files back
\* and before its DELETE: the loop has handled the first k records, no
\* record is deleted and nothing is returned
UndoInterrupted ==
    /\ call = NoCall
    /\ ~faulted
    /\ tableExists
    /\ \E operation_id \in 1..opCount :
       \E k \in 1..Len(get_operation_files(records, operation_id)) :
       \E done \in {UndoLoop([ w |-> [World EXCEPT !.dbFile = TRUE],
                               stats |-> ZeroStats, report |-> <<>>,
                               raised |-> FALSE, restored_ids |-> {} ],
                             SubSeq(get_operation_files(records, operation_id), 1, k),
                             1, FALSE, NoFault)} :
             /\ done.restored_ids # {}
             /\ SetWorld(done.w)
             /\ justRan' = [ op |-> NoOp, moved |-> {}, orphans |-> done.restored_ids ]
    /\ faulted' = TRUE
    /\ UNCHANGED <<call, nCalls, nUser, layout, model, prediction>>

NextCrash == Organize \/ Undo \/ UndoInterrupted \/ Return

CrashSpec == Init /\ [][NextCrash]_vars

\* ------------------------------------------- a wall clock that is set back
MaxRuns == 2         \* live runs in a behaviour of ClockSpec
ClockStep == 100     \* how far back the clock is set, in clock readings

\* datetime.now() is the local wall clock: between two calls it is set back
\* (end of daylight saving time, a correction of the clock, another time zone)
ClockSetBack ==
    /\ call = NoCall
    /\ ~faulted
    /\ records # {}
    /\ clock' = clock - ClockStep
    /\ faulted' = TRUE
    /\ UNCHANGED <<files, dirs, dbFile, tableExists, records, nextId, opCount, call,
                   justRan, nCalls, nUser, layout, model, prediction>>

\* a live, tracked run over the source directory or its subdirectory
ClockRun ==
    /\ call = NoCall
    /\ opCount < MaxRuns
    /\ \E source \in {SrcDir, SubDir}, check_duplicates \in BOOLEAN :
       \E o \in {[NoArgs EXCEPT !.source = source, !.output = layout.output,
                                !.organize_by_date = layout.organize_by_date,
                                !.recursive = layout.recursive,
                                !.enable_database = TRUE,
                                !.check_duplicates = check_duplicates]} :
       \E order \in Orders(scan_directory(files, source, layout.recursive)) :
       \E res \in {organize_files(World, o, order, NoFault)} :
       \E dry \in {organize_files(World, [o EXCEPT !.dry_run = TRUE], order, NoFault)} :
             /\ SetWorld(res.w)
             /\ call' = [ kind |-> "organize", args |-> o, order |-> order,
                          fault |-> NoFault,
                          pre |-> Snapshot(World, justRan),
                          stats |-> res.stats, report |-> res.report,
                          preview |-> [ stats |-> dry.stats, report |-> dry.report ],
                          raised |-> res.raised, op |-> res.op ]
             /\ justRan' = [ op |-> res.op, moved |-> Moves(res.report),
                             orphans |-> {} ]
    /\ UNCHANGED <<nCalls, nUser, layout, faulted, model, prediction>>

\* get_duplicate called on its own; without the table the SELECT raises
FindDuplicate ==
    /\ call = NoCall
    /\ nCalls < MaxCalls
    /\ \E content \in Contents :
          call' = [NoCall EXCEPT
                     !.kind = "get_duplicate",
                     !.pre = Snapshot(World, justRan),
                     !.raised = ~tableExists,
                     !.report = [ hash_value |-> compute_file_hash(content),
                                  duplicate |->
                                      IF tableExists
                                      THEN get_duplicate(records, compute_file_hash(content))
                                      ELSE {} ]]
    /\ dbFile' = TRUE
    /\ justRan' = NoRun
    /\ nCalls' = nCalls + 1
    /\ UNCHANGED <<files, dirs, tableExists, records, nextId, clock, opCount,
                   nUser, layout, faulted, model, prediction>>

NextClock == ClockRun \/ ClockSetBack \/ FindDuplicate \/ UndoLast \/ Return

ClockSpec == Init /\ [][NextClock]_vars

\* ------------------------------------ an output directory inside the source
NestedOut == <<"src", "out">>

\* a source directory that holds its own output directory: one file still to
\* organize, one organized earlier, one lying directly in the output directory
NestedTree ==
    Path(SrcDir, Name("a", ".jpg")) :> [ content |-> 1, date |-> <<2024, 3>> ]
    @@ Path(NestedOut \o <<"images">>, Name("a", ".jpg")) :>
           [ content |-> 1, date |-> <<2024, 3>> ]
    @@ Path(NestedOut, Name("b", ".txt")) :> [ content |-> 2, date |-> <<2024, 3>> ]

InitNested ==
    /\ files = NestedTree
    /\ dirs = Ancestors(NestedOut \o <<"images">>)
    /\ dbFile = FALSE
    /\ tableExists = FALSE
    /\ records = {}
    /\ nextId = 1
    /\ clock = 1
    /\ opCount = 0
    /\ call = NoCall
    /\ justRan = NoRun
    /\ nCalls = 0
    /\ nUser = 0
    /\ layout \in [ organize_by_date : {FALSE}, recursive : BOOLEAN,
                     output : {NestedOut} ]
    /\ faulted = FALSE
    /\ model = EmptyModel
    /\ prediction = NoPrediction

NextNested == Organize \/ Undo \/ Return

NestedSpec == InitNested /\ [][NextNested]_vars

\* ------------------------------------------- one flat directory, organized
\* a source directory of three files: an upper-case extension, no extension,
\* and a month of two digits
FlatTree ==
    Path(SrcDir, Name("photo", ".JPG")) :> [ content |-> 1, date |-> <<2024, 3>> ]
    @@ Path(SrcDir, Name("README", "")) :> [ content |-> 2, date |-> <<2023, 12>> ]
    @@ Path(SrcDir, Name("report", ".pdf")) :> [ content |-> 1, date |-> <<2024, 3>> ]

InitLayout ==
    /\ files = FlatTree
    /\ dirs = Ancestors(SrcDir)
    /\ dbFile = FALSE
    /\ tableExists = FALSE
    /\ records = {}
    /\ nextId = 1
    /\ clock = 1
    /\ opCount = 0
    /\ call = NoCall
    /\ justRan = NoRun
    /\ nCalls = 0
    /\ nUser = 0
    /\ layout \in [ organize_by_date : BOOLEAN, recursive : {FALSE},
                     output : {<<"organized">>} ]
    /\ faulted = FALSE
    /\ model = EmptyModel
    /\ prediction = NoPrediction

NextLayout == Organize \/ Return

LayoutSpec == InitLayout /\ [][NextLayout]_vars

\* ------------------------------------------------- the learning session
MaxTracked == 3      \* rows written to the store before training

\* the files whose moves the store has on record, and where they went
LearnNames ==
    { Name("report_2024", ".pdf"), Name("Report-final", ".txt"),
      Name("IMG_1234", ".JPG") }

LearnDirs ==
    { <<"organized", "Documents">>, <<"organized", "Archive">>,
      <<"out", "images", "2024", "03">> }

\* the file_metadata dictionaries passed to predict_destination
Metadata ==
    [ file_name : LearnNames \cup {Name("", "")},
      file_type : {"documents", "images", ""},
      file_ext : {".PDF", ".jpg", ""} ]

\* a store of ten 'documents' rows, eight moved to Documents and two to
\* Archive; the first two were inserted at the same instant, and so were
\* the last two
ScenarioStore ==
    { [ id |-> i,
        original_path |-> Path(<<"inbox", ToString(i)>>, Name("report_2024", ".pdf")),
        new_path |-> Path(IF i \in {2, 10} THEN <<"organized", "Archive">>
                          ELSE <<"organized", "Documents">>,
                          Numbered(Name("report_2024", ".pdf"), i)),
        file_name |-> Name("report_2024", ".pdf"),
        file_type |-> "documents",
        created_at |-> IF i = 1 THEN NoDate
                       ELSE IF i <= 5 THEN <<2023, 11>> ELSE <<2024, 3>>,
        sha256_hash |-> compute_file_hash(i),
        operation_date |-> IF i \in {2, 10} THEN i - 1 ELSE i,
        operation_id |-> 1 ] : i \in 1..10 }

\* a store before the learning session: missing, without its table, empty,
\* or holding the rows of an earlier run
InitLearn ==
    /\ files = <<>>
    /\ dirs = {<<>>}
    /\ \/ /\ dbFile \in BOOLEAN /\ tableExists = FALSE
          /\ records = {} /\ nextId = 1 /\ clock = 1 /\ opCount = 0
       \/ /\ dbFile = TRUE /\ tableExists = TRUE
          /\ records = {} /\ nextId = 1 /\ clock = 1 /\ opCount = 0
       \/ /\ dbFile = TRUE /\ tableExists = TRUE
          /\ records = ScenarioStore
          /\ nextId = Cardinality(ScenarioStore) + 1
          /\ clock = Cardinality(ScenarioStore)
          /\ opCount = 1
    /\ call = NoCall
    /\ justRan = NoRun
    /\ nCalls = 0
    /\ nUser = 0
    /\ layout = [ organize_by_date |-> FALSE, recursive |-> FALSE,
                  output |-> <<"organized">> ]
    /\ faulted = FALSE
    /\ model = EmptyModel
    /\ prediction = NoPrediction

\* a tracked move adds its row to the store
TrackFile ==
    /\ call = NoCall
    /\ tableExists
    /\ model.last_trained = EmptyModel.last_trained
    /\ nCalls < MaxTracked
    /\ \E file_name \in LearnNames, dir \in LearnDirs, d \in Dates :
          SetWorld(insert_file_record(World,
              [ original_path |-> Path(<<"inbox">>, file_name),
                new_path |-> Path(dir, file_name),
                file_name |-> file_name,
                file_type |-> get_file_category(Path(dir, file_name)),
                created_at |-> d,
                sha256_hash |-> NoHash,
                operation_id |-> 1 ]))
    /\ nCalls' = nCalls + 1
    /\ prediction' = NoPrediction
    /\ UNCHANGED <<call, justRan, nUser, layout, faulted, model>>

\* --learn: learn_from_history
Train ==
    /\ call = NoCall
    /\ \E tie \in TieBreaks : model' = learn_from_history(World, tie)
    /\ call' = [NoCall EXCEPT !.kind = "learn", !.pre = Snapshot(World, justRan)]
    /\ prediction' = NoPrediction
    /\ UNCHANGED <<files, dirs, dbFile, tableExists, records, nextId, clock, opCount,
                   justRan, nCalls, nUser, layout, faulted>>

\* predict_destination on the model in memory
Predict ==
    /\ call = NoCall
    /\ \E file_metadata \in Metadata :
          prediction' = [ called |-> TRUE, file_metadata |-> file_metadata,
                          result |-> predict_destination(file_metadata, model) ]
    /\ call' = [NoCall EXCEPT !.kind = "predict"]
    /\ UNCHANGED <<files, dirs, dbFile, tableExists, records, nextId, clock, opCount,
                   justRan, nCalls, nUser, layout, faulted, model>>

NextLearn == TrackFile \/ Train \/ Predict \/ Return

LearnSpec == InitLearn /\ [][NextLearn]_vars

\* ================================================================= claims
IsOrganize == call.kind = "organize"
IsUndo == call.kind \in {"undo", "undo_last"}

\* the source argument of the last call passed the validation
SourceWasValid ==
    /\ PathExists(call.pre.files, call.pre.dirs, call.args.source)
    /\ IsDir(call.pre.dirs, call.args.source)

\* the disk and the store are as the last call found them
WorldUntouched ==
    /\ files = call.pre.files
    /\ dirs = call.pre.dirs
    /\ dbFile = call.pre.dbFile
    /\ tableExists = call.pre.tableExists
    /\ records = call.pre.records
    /\ opCount = call.pre.opCount

\* the rows of the operation an undo call was asked to undo, as it found them
UndoRows == { r \in call.pre.records : r.operation_id = call.op }

UndoOutcome(r) ==
    { call.report[i].outcome : i \in { j \in 1..Len(call.report) : call.report[j].id = r.id } }

\* C1: organize_files with dry_run=True leaves the filesystem unchanged (no
\* file moved, deleted or created, no directory created) and adds no record
\* to the tracking store.
C1_DryRunChangesNothing ==
    (IsOrganize /\ call.args.dry_run) =>
        /\ files = call.pre.files
        /\ dirs = call.pre.dirs
        /\ dbFile = call.pre.dbFile
        /\ records = call.pre.records

\* the run that has just been organized recorded each of its moves
RunFullyTracked ==
    \A m \in call.pre.justRan.moved :
        \E r \in call.pre.records :
            /\ r.operation_id = call.pre.justRan.op
            /\ r.original_path = m.source /\ r.new_path = m.target

Occupied(i) ==
    DOMAIN call.pre.files \cup
    { call.report[j].target : j \in { k \in 1..(i - 1) : call.report[k].outcome = "moved" } }

NthName(original, k) == IF k = 0 THEN original ELSE Numbered(original, k)

C3_NeverOverwrites ==
    (IsOrganize /\ ~call.args.dry_run) =>
        /\ \A i \in 1..Len(call.report) :
              call.report[i].outcome = "moved" =>
                 LET e == call.report[i] IN
                 /\ e.target \notin Occupied(i)
                 /\ \E k \in 0..Cardinality(Occupied(i)) :
                       /\ e.target.name = NthName(e.source.name, k)
                       /\ \A m \in 0..(k - 1) :
                             Path(e.target.dir, NthName(e.source.name, m)) \in Occupied(i)
                 /\ e.target \in DOMAIN files
                 /\ files[e.target] = call.pre.files[e.source]
        /\ \A p \in DOMAIN call.pre.files :
              IsPrefix(call.args.output, p.dir) =>
                 p \in DOMAIN files /\ files[p] = call.pre.files[p]

\* a third collision: X and X_1 are taken and the file is stored as X_2
C3_Witness ==
    /\ IsOrganize /\ ~call.args.dry_run
    /\ \E i \in 1..Len(call.report) :
          /\ call.report[i].outcome = "moved"
          /\ call.report[i].target.name = Numbered(call.report[i].source.name, 2)
          /\ Path(call.report[i].target.dir, call.report[i].source.name)
                \in DOMAIN call.pre.files

\* C4: two source files of identical content and different names, organized
\* by one live run with tracking and check_duplicates (remove_duplicates
\* off), the store holding no record of that content before: exactly one
\* record of the content is inserted, duplicates_found is 1, and the second
\* file stays at its source path, neither moved nor deleted.
C4_Scenario ==
    /\ IsOrganize /\ ~call.args.dry_run /\ call.args.enable_database
    /\ call.args.check_duplicates /\ ~call.args.remove_duplicates
    /\ call.fault = NoFault /\ SourceWasValid
    /\ Len(call.order) = 2
    /\ ~IsPrefix(call.args.output, call.order[1].dir)
    /\ ~IsPrefix(call.args.output, call.order[2].dir)
    /\ call.order[1].name # call.order[2].name
    /\ call.pre.files[call.order[1]].content = call.pre.files[call.order[2]].content
    /\ \A r \in call.pre.records :
          r.sha256_hash # compute_file_hash(call.pre.files[call.order[1]].content)

C4_OneTrackedOneDuplicate ==
    C4_Scenario =>
        LET first == call.order[1]
            second == call.order[2]
            digest == compute_file_hash(call.pre.files[first].content)
            tracked == { r \in records : r.sha256_hash = digest }
        IN /\ ~call.raised
           /\ Cardinality(tracked) = 1
           /\ \A r \in tracked : r.original_path = first /\ r.operation_id = call.op
           /\ call.stats.duplicates_found = 1
           /\ call.stats.files_moved = 1
           /\ first \notin DOMAIN files
           /\ second \in DOMAIN files
           /\ files[second] = call.pre.files[second]

C4_Witness == C4_Scenario /\ call.stats.duplicates_found = 1

\* C5: the target path a dry run reports for each file and the counters
\* files_moved and duplicates_found it returns are those of a live run
\* started from the same state with the same options.
C5_PreviewEqualsLive ==
    (IsOrganize /\ ~call.args.dry_run /\ call.fault = NoFault) =>
        /\ call.preview.stats.files_moved = call.stats.files_moved
        /\ call.preview.stats.duplicates_found = call.stats.duplicates_found
        /\ Len(call.preview.report) = Len(call.report)
        /\ \A i \in 1..Len(call.report) :
              call.preview.report[i].target = call.report[i].target

\* C6: a failure of hashing, of reading metadata, of moving or of deleting
\* one scanned file never aborts the run: organize_files processes every
\* scanned file and returns its statistics.
C6_RunNeverAborts ==
    (IsOrganize /\ SourceWasValid) =>
        /\ ~call.raised
        /\ call.stats.files_processed = Len(call.order)

\* C7: a source that does not exist or is not a directory makes
\* organize_files return errors = 1 and every other counter 0, without
\* raising, without generating an operation id and without touching the
\* filesystem or the store.
C7_InvalidSource ==
    (IsOrganize /\ ~SourceWasValid) =>
        /\ ~call.raised
        /\ call.stats = [ZeroStats EXCEPT !.errors = 1]
        /\ call.op = NoOp
        /\ call.report = <<>>
        /\ WorldUntouched

\* the source is a file, not a directory
C7_Witness ==
    /\ IsOrganize
    /\ PathExists(call.pre.files, call.pre.dirs, call.args.source)
    /\ ~IsDir(call.pre.dirs, call.args.source)
    /\ call.stats.errors = 1
    /\ ~call.args.dry_run /\ call.args.enable_database

\* C8: undo never overwrites.  A record whose original_path is occupied is
\* counted as one error; the file at original_path and the file at new_path
\* are left as they were and the record stays in the store.
C8_UndoNeverOverwrites ==
    IsUndo =>
        /\ call.stats.errors =
              Cardinality({ i \in 1..Len(call.report) : call.report[i].outcome # "restored" })
        /\ \A r \in UndoRows :
              (r.original_path \in DOMAIN call.pre.files) =>
                 /\ UndoOutcome(r) \in {{"occupied"}, {"missing"}}
                 /\ r \in records
                 /\ r.original_path \in DOMAIN files
                 /\ files[r.original_path] = call.pre.files[r.original_path]
                 /\ (r.new_path \in DOMAIN call.pre.files) =>
                       /\ r.new_path \in DOMAIN files
                       /\ files[r.new_path] = call.pre.files[r.new_path]

C8_Witness ==
    /\ IsUndo /\ ~call.args.dry_run
    /\ \E r \in UndoRows :
          /\ r.original_path \in DOMAIN call.pre.files
          /\ r.new_path \in DOMAIN call.pre.files
          /\ call.pre.files[r.original_path] # call.pre.files[r.new_path]

\* C9: undo_operation deletes a record only when it has moved the record's
\* file back to original_path: every record that leaves the store was
\* restored by this live undo call, and no record of a file that failed to
\* restore is removed.  No other operation removes records.
C9_DeleteOnlyRestored ==
    /\ ~IsUndo => call.pre.records \subseteq records
    /\ IsUndo =>
          /\ \A r \in call.pre.records \ records :
                /\ ~call.args.dry_run
                /\ r.operation_id = call.op
                /\ UndoOutcome(r) = {"restored"}
                /\ r.original_path \in DOMAIN files
                /\ files[r.original_path] = call.pre.files[r.new_path]
                /\ r.new_path \notin DOMAIN files
          /\ \A r \in UndoRows : UndoOutcome(r) # {"restored"} => r \in records

\* one record restored and deleted, one that failed and stays
C9_Witness ==
    /\ IsUndo /\ ~call.args.dry_run
    /\ \E r \in UndoRows : r \notin records
    /\ \E r \in UndoRows : r \in records /\ UndoOutcome(r) = {"move_failed"}

\* C10: a record whose new_path is no longer on disk is counted as one
\* error and skipped without raising; every other record of the operation
\* is still processed, and the skipped record stays in the store.
C10_MissingNewPath ==
    (IsUndo /\ \E r \in UndoRows : r.new_path \notin DOMAIN call.pre.files) =>
        /\ ~call.raised
        /\ Len(call.report) = Cardinality(UndoRows)
        /\ \A r \in UndoRows : Cardinality(UndoOutcome(r)) = 1
        /\ \A r \in UndoRows :
              (r.new_path \notin DOMAIN call.pre.files) =>
                 UndoOutcome(r) = {"missing"} /\ r \in records
        /\ call.stats.errors + call.stats.files_restored = Cardinality(UndoRows)
        /\ call.stats.errors >=
              Cardinality({ r \in UndoRows : r.new_path \notin DOMAIN call.pre.files })

\* the first record is missing and a later one is restored
C10_Witness ==
    /\ IsUndo /\ ~call.args.dry_run /\ Len(call.report) >= 2
    /\ call.report[1].outcome = "missing"
    /\ \E i \in 2..Len(call.report) : call.report[i].outcome = "restored"

\* C11: undo_operation on an operation id without records (never used, or
\* already undone) and undo_last_operation on a store without records return
\* files_restored = 0 and errors = 0, do not raise, and leave the filesystem
\* and the store as they were.
C11_NothingToUndo ==
    (IsUndo /\ UndoRows = {}) =>
        /\ ~call.raised
        /\ call.stats.files_restored = 0
        /\ call.stats.errors = 0
        /\ WorldUntouched

\* the same, for the calls that find the table 'files' created
C11_InitialisedStore ==
    (IsUndo /\ UndoRows = {} /\ call.pre.tableExists) =>
        /\ ~call.raised
        /\ call.stats.files_restored = 0
        /\ call.stats.errors = 0
        /\ WorldUntouched

\* the records an undo can restore in the state it started from
Restorable ==
    { r \in UndoRows : /\ r.new_path \in DOMAIN call.pre.files
                       /\ r.original_path \notin DOMAIN call.pre.files }

\* C12: undo_operation with dry_run=True moves no file, creates no directory
\* and deletes no record, and its files_restored is the number of records
\* whose new_path is present and whose original_path is free, which is what
\* a live undo started from the same state restores.
C12_UndoDryRun ==
    /\ (IsUndo /\ call.args.dry_run) =>
          /\ files = call.pre.files
          /\ dirs = call.pre.dirs
          /\ records = call.pre.records
          /\ call.stats.files_restored = Cardinality(Restorable)
    /\ (IsUndo /\ ~call.args.dry_run /\ call.fault = NoFault) =>
          /\ call.preview.stats.files_restored = call.stats.files_restored
          /\ call.stats.files_restored = Cardinality(call.pre.records \ records)

\* a dry run that would restore some records and not others
C12_Witness ==
    /\ IsUndo /\ call.args.dry_run
    /\ call.stats.files_restored >= 1
    /\ call.stats.errors >= 1

IsStats == call.kind = "stats"

\* the counts of files_by_type added up
TypeTotal(files_by_type) ==
    Cardinality({ <<t, n>> \in (DOMAIN files_by_type) \X (1..Cardinality(call.pre.records)) :
                    n <= files_by_type[t] })

\* what the claim says get_database_stats returns
StatsAreCounts ==
    /\ ~call.raised
    /\ call.report.total_files = Cardinality(call.pre.records)
    /\ TypeTotal(call.report.files_by_type) = call.report.total_files
    /\ \A t \in DOMAIN call.report.files_by_type :
          call.report.files_by_type[t] =
             Cardinality({ r \in call.pre.records : r.file_type = t })
    /\ call.report.total_operations =
          Cardinality({ r.operation_id : r \in call.pre.records })
    /\ call.pre.records = {} => call.report = NoStats

\* C18: get_database_stats reports total_files equal to the number of
\* records, files_by_type whose counts add up to total_files, and
\* total_operations equal to the number of distinct operation ids; on a
\* store without records it returns 0, {} and 0.
C18_StatsOfStore == IsStats => StatsAreCounts

\* the same, for the calls that find the table 'files' created
C18_InitialisedStore == (IsStats /\ call.pre.tableExists) => StatsAreCounts

\* the category and the date folders the files of the universe belong in
ExpectedCategory(name) ==
    CASE name.suffix \in {".jpg", ".JPG"} -> "images"
      [] name.suffix \in {".pdf", ".txt"} -> "documents"
      [] OTHER -> "others"

ExpectedDateFolders(date) ==
    CASE date = <<2024, 3>> -> <<"2024", "03">>
      [] date = <<2023, 12>> -> <<"2023", "12">>

\* C19: the target of a file is output_dir/category/year/two-digit month/
\* original filename when organize_by_date is set and output_dir/category/
\* original filename otherwise; the category comes from the extension
\* whatever its case (default 'others') and the filename keeps its case
\* (it is numbered only when the plain name is taken).  photo.JPG created
\* in March 2024 goes to organized/images/2024/03/photo.JPG.
C19_TargetPath ==
    IsOrganize =>
        \A i \in 1..Len(call.report) :
            call.report[i].outcome \in {"moved", "move_failed"} =>
                LET e == call.report[i]
                    target_dir ==
                        call.args.output \o <<ExpectedCategory(e.source.name)>>
                        \o (IF call.args.organize_by_date
                            THEN ExpectedDateFolders(call.pre.files[e.source].date)
                            ELSE <<>>)
                IN /\ e.target.dir = target_dir
                   /\ e.target.name.suffix = e.source.name.suffix
                   /\ ( /\ Path(target_dir, e.source.name) \notin DOMAIN call.pre.files
                        /\ \A j \in 1..(i - 1) :
                              call.report[j].target # Path(target_dir, e.source.name) ) =>
                         e.target.name = e.source.name

C19_Witness ==
    /\ IsOrganize /\ ~call.args.dry_run /\ call.args.organize_by_date
    /\ call.args.output = <<"organized">>
    /\ Path(SrcDir, Name("photo", ".JPG")) \in DOMAIN call.pre.files
    /\ call.pre.files[Path(SrcDir, Name("photo", ".JPG"))].date = <<2024, 3>>
    /\ Path(<<"organized", "images", "2024", "03">>, Name("photo", ".JPG")) \in DOMAIN files
    /\ \E i \in 1..Len(call.report) :
          /\ call.report[i].outcome = "moved"
          /\ call.report[i].source = Path(SrcDir, Name("photo", ".JPG"))
          /\ call.report[i].target =
                Path(<<"organized", "images", "2024", "03">>, Name("photo", ".JPG"))

\* the records the store holds when the run reaches order[i]: those it
\* started with and those the run inserted for the files before it
StoreBefore(i) ==
    call.pre.records
    \cup { r \in records \ call.pre.records :
             \E j \in 1..(i - 1) : r.original_path = call.order[j] }

\* the run computed the digest of order[i] and a store record carries it
StoreHoldsDigest(i) ==
    /\ ~(call.fault.path = call.order[i] /\ call.fault.kind = "hash")
    /\ \E r \in StoreBefore(i) :
          r.sha256_hash = compute_file_hash(call.pre.files[call.order[i]].content)

\* order[i] was not moved into the output, got no record, and, unless
\* duplicates are removed, is still at its source path as it was
SkippedAsDuplicate(i) ==
    LET file_path == call.order[i] IN
    /\ \A m \in Moves(call.report) : m.source # file_path
    /\ \A q \in (DOMAIN files) \ (DOMAIN call.pre.files) :
          \E m \in Moves(call.report) : m.target = q /\ m.source # file_path
    /\ \A r \in records \ call.pre.records : r.original_path # file_path
    /\ ~call.args.remove_duplicates =>
          /\ file_path \in DOMAIN files
          /\ files[file_path] = call.pre.files[file_path]

MovesAreTracked ==
    /\ \A m \in Moves(call.report) :
          LET tracked == { r \in records : /\ r.operation_id = call.op
                                           /\ r.original_path = m.source }
          IN /\ Cardinality(tracked) = 1
             /\ \A r \in tracked : r.new_path = m.target
             /\ m.target \in DOMAIN files
             /\ files[m.target] = call.pre.files[m.source]
    /\ Cardinality({ r \in records : r.operation_id = call.op }) = call.stats.files_moved

\* C21: after a live organize run with tracking enabled, every file the run
\* moved has exactly one tracking record, whose original_path is the path
\* before the move, whose new_path is the path the file occupies after it
\* (collision suffix included) and whose operation_id is the run's; the
\* records of the run are as many as files_moved.
C21_EveryMoveTracked ==
    (IsOrganize /\ ~call.args.dry_run /\ call.args.enable_database) =>
        MovesAreTracked

\* the same, for the runs in which no insert failed
C21_TrackedUnlessInsertFails ==
    ( /\ IsOrganize /\ ~call.args.dry_run /\ call.args.enable_database
      /\ call.fault.kind # "insert" ) =>
        MovesAreTracked

\* the run could not compute the content hash of one of its files
HashFailed == IsOrganize /\ call.fault.kind = "hash"

\* C22: a file whose content hash cannot be computed is a per-file error:
\* the failure is caught, the errors counter of the result is incremented
\* for that file, and the run goes on with the next file.
C22_HashFailureCounted ==
    HashFailed =>
        /\ ~call.raised
        /\ Len(call.report) = Len(call.order)
        /\ call.stats.errors >= 1

\* the failure is caught and the run goes on
C22_HashFailureCaught ==
    HashFailed =>
        /\ ~call.raised
        /\ call.stats.files_processed = Len(call.order)

\* the records a run inserted
Inserted == records \ call.pre.records

C23_RunIds ==
    /\ \A r \in records : r.operation_id # NoOp
    /\ IsOrganize =>
          /\ \A r \in Inserted : r.operation_id = call.op
          /\ \A r \in call.pre.records : r.operation_id # call.op
          /\ call.args.dry_run =>
                /\ call.op = NoOp /\ Inserted = {}
                /\ opCount = call.pre.opCount

C23_IdKept ==
    \A r \in records : \A q \in records' :
        q.id = r.id => q.operation_id = r.operation_id

Orphans == { r \in call.pre.records : r.id \in call.pre.justRan.orphans }

\* undo_operation is run again, right after the interrupted undo, on the
\* operation that undo was restoring
UndoRunAgain ==
    /\ call.kind = "undo"
    /\ Orphans # {}
    /\ \A r \in Orphans : r.operation_id = call.op

\* C24: when a live undo was interrupted after files were moved back to
\* their original paths and before the deletion of their records, running
\* undo_operation again on the same operation does not raise, counts each
\* orphan record as an error (file not found at new location) and changes
\* nothing on the filesystem: the restored files stay where they are, and
\* when the interrupted undo had handled the whole operation the files and
\* directories are exactly those of before.
C24_UndoAgainAfterCrash ==
    UndoRunAgain =>
        /\ ~call.raised
        /\ \A r \in Orphans :
              /\ \E i \in 1..Len(call.report) :
                    call.report[i] = UndoEntry(r, "missing")
              /\ r.original_path \in DOMAIN files
              /\ files[r.original_path] = call.pre.files[r.original_path]
              /\ r.new_path \notin DOMAIN files
        /\ call.stats.errors >= Cardinality(Orphans)
        /\ (\A r \in call.pre.records : r.operation_id = call.op => r \in Orphans) =>
              /\ files = call.pre.files /\ dirs = call.pre.dirs
              /\ call.stats.files_restored = 0
              /\ call.stats.errors = Cardinality(Orphans)

C24_Witness ==
    /\ UndoRunAgain /\ ~call.args.dry_run
    /\ Cardinality(Orphans) >= 2
    /\ \A r \in call.pre.records : r.operation_id = call.op => r \in Orphans
    /\ call.stats.errors = Cardinality(Orphans)
    /\ files = call.pre.files
    /\ records = call.pre.records

IsLookup == call.kind = "get_duplicate" /\ ~call.raised

\* the stored records that carry the digest looked up
Matching == { r \in call.pre.records : r.sha256_hash = call.report.hash_value }

\* C25 as stated: get_duplicate returns None exactly when no stored record
\* has the digest; otherwise it returns a record with that digest which is
\* the most recently inserted of the records with that digest.
C25_MostRecentlyInserted ==
    IsLookup =>
        /\ (call.report.duplicate = {}) <=> (Matching = {})
        /\ \A d \in call.report.duplicate :
              /\ d \in Matching
              /\ \A r \in Matching : r.id <= d.id

\* C25, amended: get_duplicate returns None exactly when no stored record
\* has the digest; otherwise it returns a record with that digest whose
\* operation_date is the latest of the records with that digest, which is
\* the most recently inserted one when the operation dates of these records
\* increase in the order of insertion.
C25_LatestOperationDate ==
    IsLookup =>
        /\ (call.report.duplicate = {}) <=> (Matching = {})
        /\ \A d \in call.report.duplicate :
              /\ d \in Matching
              /\ \A r \in Matching : r.operation_date <= d.operation_date
              /\ (\A q, r \in Matching :
                     q.id < r.id => q.operation_date < r.operation_date) =>
                    \A r \in Matching : r.id <= d.id

C25_Witness ==
    /\ IsLookup
    /\ \E d \in call.report.duplicate :
       \E r \in Matching :
          /\ r.operation_id # d.operation_id
          /\ r.id > d.id
          /\ r.operation_date < d.operation_date

\* the scanned files that lie in the output directory or below it
ScannedInOutput ==
    { call.order[i] : i \in { j \in 1..Len(call.order) :
                                 IsPrefix(call.args.output, call.order[j].dir) } }

\* C26: a scanned file whose path lies inside output_dir, directly or in any
\* subdirectory, is never moved, deleted or tracked by organize_files: a
\* recursive run over a source that contains the output directory leaves
\* the files organized earlier where they are.
C26_OutputLeftAlone ==
    IsOrganize =>
        \A file_path \in ScannedInOutput :
            /\ file_path \in DOMAIN files
            /\ files[file_path] = call.pre.files[file_path]
            /\ \A m \in Moves(call.report) : m.source # file_path
            /\ \A r \in Inserted : r.original_path # file_path
            /\ Cardinality(DOMAIN files) = Cardinality(DOMAIN call.pre.files)
                  - call.stats.duplicates_removed

C26_Witness ==
    /\ IsOrganize /\ ~call.args.dry_run /\ call.args.recursive
    /\ call.args.check_duplicates /\ call.args.remove_duplicates
    /\ call.args.enable_database
    /\ Cardinality(ScannedInOutput) >= 2
    /\ \E file_path \in ScannedInOutput : file_path.dir # call.args.output
    /\ \E file_path \in ScannedInOutput : file_path.dir = call.args.output
    /\ \E file_path \in ScannedInOutput : \E r \in call.pre.records :
          r.sha256_hash = compute_file_hash(call.pre.files[file_path].content)
    /\ call.stats.files_processed = Cardinality(ScannedInOutput)
    /\ files = call.pre.files

\* the records the operation had when the undo started
RecordsOfOperation == { r \in call.pre.records : r.operation_id = call.op }

\* C27: on every return of undo_operation, files_restored + errors is the
\* number of tracking records the operation had when the undo started: each
\* record is counted exactly once, as restored or as an error.
C27_EveryRecordCounted ==
    (IsUndo /\ ~call.raised) =>
        /\ call.stats.files_restored + call.stats.errors
              = Cardinality(RecordsOfOperation)
        /\ Len(call.report) = Cardinality(RecordsOfOperation)
        /\ \A r \in RecordsOfOperation :
              Cardinality({ i \in 1..Len(call.report) : call.report[i].id = r.id }) = 1

C27_Witness ==
    /\ IsUndo /\ ~call.raised
    /\ call.stats.files_restored >= 1
    /\ call.stats.errors >= 1
    /\ Cardinality(RecordsOfOperation) >= 2

\* the files the run deleted as duplicates, by their place in the scan
DeletedAsDuplicate ==
    { i \in 1..Len(call.order) :
        \E j \in 1..Len(call.report) :
            call.report[j] = Entry(call.order[i], call.order[i], "deleted") }

\* C28: whenever a live run with remove_duplicates deletes a source file as
\* a duplicate, a file of the same content is on disk at the new_path of the
\* matched tracking record, so a copy of the content survives the deletion.
C28_CopySurvives ==
    (IsOrganize /\ ~call.args.dry_run /\ call.args.remove_duplicates) =>
        \A i \in DeletedAsDuplicate :
            LET content == call.pre.files[call.order[i]].content IN
            /\ call.order[i] \notin DOMAIN files
            /\ \A d \in get_duplicate(StoreBefore(i), compute_file_hash(content)) :
                  /\ d.new_path \in DOMAIN files
                  /\ files[d.new_path].content = content
            /\ \E p \in DOMAIN files : files[p].content = content

\* the files of the source directory (of its whole tree in a recursive run)
\* when the run started
FilesInSource ==
    { p \in DOMAIN call.pre.files :
        \/ p.dir = call.args.source
        \/ call.args.recursive /\ IsPrefix(call.args.source, p.dir) }

\* C29: on every normal return of organize_files after a successful source
\* validation, files_processed is the number of files scanned,
\* files_moved + duplicates_found <= files_processed, and
\* duplicates_removed <= duplicates_found.
C29_CountersAddUp ==
    (IsOrganize /\ SourceWasValid /\ ~call.raised) =>
        /\ call.stats.files_processed = Cardinality(FilesInSource)
        /\ call.stats.files_moved + call.stats.duplicates_found
              <= call.stats.files_processed
        /\ call.stats.duplicates_removed <= call.stats.duplicates_found

C29_Witness ==
    /\ IsOrganize /\ SourceWasValid /\ ~call.raised
    /\ call.stats.files_processed >= 2
    /\ call.stats.errors >= 1
    /\ call.stats.files_moved + call.stats.duplicates_found >= 1
    /\ call.stats.files_moved + call.stats.duplicates_found
          < call.stats.files_processed

IsUndoLast == call.kind = "undo_last" /\ ~call.raised

\* a live undo_last that restored every record of the operation it chose
\* has removed these records and no other
UndoneIsGone ==
    (~call.args.dry_run /\ call.stats.errors = 0) =>
        records = { r \in call.pre.records : r.operation_id # call.op }

\* C30: undo_last_operation targets the operation of the most recently
\* inserted record still in the store; a live undo_last that restores every
\* record of that operation leaves the remaining operations, of which the
\* next undo_last again targets the most recent, so that repeated calls undo
\* the runs in reverse order of execution until the store is empty.
C30_UndoesLatestRun ==
    IsUndoLast =>
        /\ (call.pre.records = {}) <=> (call.op = NoOp)
        /\ \A r \in call.pre.records :
              (\A q \in call.pre.records : q.id <= r.id) => call.op = r.operation_id
        /\ UndoneIsGone

\* what the code does: the operation of the record with the latest
\* operation_date
C30_UndoesLatestDate ==
    IsUndoLast =>
        /\ (call.pre.records = {}) <=> (call.op = NoOp)
        /\ \A r \in call.pre.records :
              (\A q \in call.pre.records : q.operation_date < r.operation_date \/ q = r)
                  => call.op = r.operation_id
        /\ UndoneIsGone

\* ------------------------------------------------------ learning claims
IsLearn == call.kind = "learn"
IsPredict == call.kind = "predict" /\ prediction.called

\* the table and the key each strategy of the last prediction looked up
SignalTable(signal) ==
    CASE signal = "type" -> model.type_to_folder
      [] signal = "extension" -> model.ext_to_folder
      [] signal = "name" -> model.name_pattern_to_folder

SignalKey(signal) ==
    CASE signal = "type" -> prediction.file_metadata.file_type
      [] signal = "extension" -> Lower(prediction.file_metadata.file_ext)
      [] signal = "name" -> extract_filename_pattern(prediction.file_metadata.file_name)

\* the strategies whose key is in their table
Firing ==
    { signal \in DOMAIN Weight :
        /\ SignalKey(signal) \in DOMAIN SignalTable(signal)
        /\ signal = "extension" => SignalKey(signal) # "" }

Proposals == { prediction.result.predictions[i] :
                 i \in 1..Len(prediction.result.predictions) }

\* a Counter as the dictionary it is: its entries without their order
CounterDict(counter) == { counter[i] : i \in 1..Len(counter) }

CountSum(counter) ==
    Cardinality({ <<i, n>> \in (1..Len(counter)) \X (1..Cardinality(records)) :
                    n <= counter[i].count })

\* C13: predict_destination returns None for every file metadata whenever
\* the model's total_samples is below MIN_SAMPLES_FOR_PREDICTION, whatever
\* its frequency tables hold.
C13_TooFewSamples ==
    (IsPredict /\ model.total_samples < MIN_SAMPLES_FOR_PREDICTION) =>
        ~prediction.result.found

\* a trained model with every key of the query in its tables, and no prediction
C13_Witness ==
    /\ IsPredict
    /\ model.total_samples = MIN_SAMPLES_FOR_PREDICTION - 1
    /\ Firing = DOMAIN Weight
    /\ ~prediction.result.found

\* C14: the confidence of every prediction made from a trained model lies
\* between 0 and 1.
C14_ConfidenceInUnitInterval ==
    (IsPredict /\ prediction.result.found) =>
        /\ prediction.result.confidence.den > 0
        /\ ~FracLess(prediction.result.confidence, Frac(0, 1))
        /\ ~FracLess(Frac(1, 1), prediction.result.confidence)

\* three strategies vote and the confidence is strictly between 0 and 1
C14_Witness ==
    /\ IsPredict /\ prediction.result.found
    /\ Cardinality(Proposals) = Cardinality(DOMAIN Weight)
    /\ FracLess(Frac(0, 1), prediction.result.confidence)
    /\ FracLess(prediction.result.confidence, Frac(1, 1))

\* two models hold the same dictionaries and the same number of samples
TableDict(table) == [ k \in DOMAIN table |-> CounterDict(table[k]) ]

SameTables(m1, m2) ==
    /\ TableDict(m1.type_to_folder) = TableDict(m2.type_to_folder)
    /\ TableDict(m1.ext_to_folder) = TableDict(m2.ext_to_folder)
    /\ TableDict(m1.name_pattern_to_folder) = TableDict(m2.name_pattern_to_folder)
    /\ DOMAIN m1.temporal_patterns = DOMAIN m2.temporal_patterns
    /\ \A y \in DOMAIN m1.temporal_patterns :
          TableDict(m1.temporal_patterns[y]) = TableDict(m2.temporal_patterns[y])
    /\ m1.total_samples = m2.total_samples

\* what another call of learn_from_history on the same store can return
Retrained(tie) ==
    learn_from_history([ dbFile |-> call.pre.dbFile,
                         tableExists |-> call.pre.tableExists,
                         records |-> call.pre.records, clock |-> clock ], tie)

\* C15: training is deterministic and idempotent.  Whatever order the store
\* returns rows of equal operation_date in, a second learn_from_history on
\* the same store content gives the same type, extension, name-prefix and
\* temporal tables and the same total_samples, and training leaves the
\* store as it was.
C15_TrainingIdempotent ==
    IsLearn =>
        /\ WorldUntouched
        /\ \A tie \in TieBreaks : SameTables(model, Retrained(tie))
        /\ model.total_samples = IF tableExists THEN Cardinality(records) ELSE 0

\* the second training reads the rows in another order and fills its
\* counters in another order
C15_Witness ==
    /\ IsLearn
    /\ model.total_samples > Cardinality(ScenarioStore)
    /\ \E tie \in TieBreaks :
          Retrained(tie).type_to_folder # model.type_to_folder

\* C16: every strategy whose key is in its table proposes the destination
\* of highest count for that key with local confidence count / total, and a
\* strategy whose key is missing proposes nothing; with ten 'documents'
\* records, eight to Documents and two to Archive, a query that carries
\* only file_type 'documents' gets Documents with confidence 0.8.
C16_SignalsFollowCounts ==
    (IsPredict /\ model.total_samples >= MIN_SAMPLES_FOR_PREDICTION) =>
        /\ { p.signal : p \in Proposals } = Firing
        /\ \A p \in Proposals :
              LET counter == SignalTable(p.signal)[SignalKey(p.signal)] IN
              /\ [ key |-> p.destination, count |-> p.count ] \in CounterDict(counter)
              /\ \A e \in CounterDict(counter) : e.count <= p.count
              /\ p.total = CountSum(counter)
              /\ FracEq(p.confidence, Frac(p.count, p.total))
        /\ ( /\ prediction.file_metadata = [NoMetadata EXCEPT !.file_type = "documents"]
             /\ "documents" \in DOMAIN model.type_to_folder
             /\ CounterDict(model.type_to_folder["documents"]) =
                   { [ key |-> "Documents", count |-> 8 ],
                     [ key |-> "Archive", count |-> 2 ] } ) =>
               /\ prediction.result.found
               /\ prediction.result.destination = "Documents"
               /\ FracEq(prediction.result.confidence, Frac(8, 10))

\* the scenario itself
C16_Witness ==
    /\ IsPredict
    /\ prediction.file_metadata = [NoMetadata EXCEPT !.file_type = "documents"]
    /\ model.total_samples = 10
    /\ prediction.result.destination = "Documents"
    /\ FracEq(prediction.result.confidence, Frac(4, 5))

\* the weighted vote a destination gets from one strategy, in tenths
Contribution(dest, signal) ==
    IF \E p \in Proposals : p.signal = signal /\ p.destination = dest
    THEN LET p == CHOOSE q \in Proposals : q.signal = signal
         IN Frac(p.count * Weight[signal], p.total)
    ELSE Frac(0, 1)

Score(dest) ==
    FracAdd(FracAdd(Contribution(dest, "type"), Contribution(dest, "extension")),
            Contribution(dest, "name"))

\* the weights of the strategies that propose a destination, as a sum of tenths
Backing(dest) ==
    Cardinality({ <<p, n>> \in Proposals \X (1..10) :
                    p.destination = dest /\ n <= Weight[p.signal] })

\* C17: when at least one strategy fires, predict_destination returns the
\* destination whose sum of local confidence x weight (type 0.5, extension
\* 0.3, name prefix 0.2) over the strategies proposing it is highest, with
\* confidence that sum divided by the sum of the weights of those
\* strategies; when none fires it returns None.
C17_WeightedVote ==
    (IsPredict /\ model.total_samples >= MIN_SAMPLES_FOR_PREDICTION) =>
        /\ Weight = [ type |-> 5, extension |-> 3, name |-> 2 ]
        /\ prediction.result.found = (Firing # {})
        /\ prediction.result.found =>
              /\ \E p \in Proposals : p.destination = prediction.result.destination
              /\ \A p \in Proposals :
                    ~FracLess(Score(prediction.result.destination), Score(p.destination))
              /\ FracEq(prediction.result.confidence,
                        FracDiv(Score(prediction.result.destination),
                                Frac(Backing(prediction.result.destination), 1)))

\* extension and name prefix together outvote the file type
C17_Witness ==
    /\ IsPredict /\ prediction.result.found
    /\ \E p \in Proposals :
          /\ p.signal = "type"
          /\ p.destination # prediction.result.destination
    /\ Backing(prediction.result.destination) = Weight["extension"] + Weight["name"]

====
